---- MODULE Spec2Model ----
(***************************************************************************)
(* Model of the agent runner of Revenue Leak Detective                     *)
(* (workers/src/agent/run.py and the script workers/run.py).               *)
(*                                                                         *)
(* Python values are tagged records, dicts are total functions over Keys   *)
(* whose absent keys hold Absent, texts are sequences of one-character     *)
(* strings.  Objects live in a heap and are named by their index, so that  *)
(* identity (is / is not) differs from equality (==).                      *)
(***************************************************************************)
EXTENDS Integers, Sequences, FiniteSets, TLC

(* ------------------------------ bounds --------------------------------- *)
\* longest message text drawn from Chars
MaxLen == 1
\* number of library calls made by one caller
MaxCalls == 2

(* ------------------------------- state --------------------------------- *)
VARIABLES
    pc,        \* "idle", or the position inside main
    args,      \* the parsed command line of main
    outcome,   \* what the latest call did
    heap,      \* the dicts allocated so far; a dict's identity is its index
    graphs,    \* the compiled workflows create_workflow returned
    log,       \* the records handed to the logger
    stdout,    \* the lines written to standard output
    exitCode,  \* -1 while the process runs
    calls      \* the library calls made so far, with their outcomes

vars == <<pc, args, outcome, heap, graphs, log, stdout, exitCode, calls>>

(* --------------------------- Python values ----------------------------- *)
Chars == {"a"}

RECURSIVE TextsUpTo(_)
TextsUpTo(n) ==
    IF n = 0 THEN {<<>>}
    ELSE LET shorter == TextsUpTo(n - 1)
         IN  shorter \cup {Append(s, c) : s \in {t \in shorter : Len(t) = n - 1}, c \in Chars}

\* default of the --message option and of run_agent's message parameter
DefaultMessage == <<"M", "e", "h", "r", "n", "o", "o", "s", "h">>

\* the empty text, texts over Chars, a blank, a newline, a text holding a
\* quote and the default
Texts == TextsUpTo(MaxLen) \cup {<<" ">>, <<"\n">>, <<"'">>, DefaultMessage}

Str(s) == [t |-> "str", s |-> s, n |-> 0]
None == [t |-> "NoneType", s |-> <<>>, n |-> 0]
IntVal(i) == [t |-> "int", s |-> <<>>, n |-> i]
\* marks a key that a dict does not hold
Absent == [t |-> "absent", s |-> <<>>, n |-> 0]

StrValues == {Str(s) : s \in Texts}
\* the values the tests put under "message": texts, None and 123
Values == StrValues \cup {None, IntVal(123)}

Keys == {"message", "extra"}
Dict(m, x) == [message |-> m, extra |-> x]
EmptyDict == Dict(Absent, Absent)
Has(d, k) == d[k].t # "absent"
KeysOf(d) == {k \in Keys : Has(d, k)}

\* State: the TypedDict with the single key "message"
State(m) == Dict(m, Absent)

\* "Welcome to my agent! "
Prefix == <<"W", "e", "l", "c", "o", "m", "e", " ", "t", "o", " ", "m", "y", " ",
            "a", "g", "e", "n", "t", "!", " ">>

Digit(d) == <<"0", "1", "2", "3", "4", "5", "6", "7", "8", "9">>[d + 1]
RECURSIVE Digits(_)
Digits(i) == IF i < 10 THEN <<Digit(i)>> ELSE Digits(i \div 10) \o <<Digit(i % 10)>>

\* str(v), as in f"{v}"
Format(v) ==
    CASE v.t = "str" -> v.s
      [] v.t = "NoneType" -> <<"N", "o", "n", "e">>
      [] v.t = "int" -> Digits(v.n)

(* ---------------------------- exceptions ------------------------------- *)
NoCause == [type |-> "none", detail |-> ""]
NoExc == [type |-> "none", msg |-> "", cause |-> NoCause]
\* raise RuntimeError(f"<msg>: {e}") from e
RuntimeErrorFrom(msg, e) == [type |-> "RuntimeError", msg |-> msg, cause |-> e]

\* state["message"] on a dict without the key
KeyErrorMessage == [type |-> "KeyError", detail |-> "'message'"]
\* "..." + v for a v that is not a str
ConcatTypeError(v) == [type |-> "TypeError", detail |-> v.t]

(* ------------------------------ logging -------------------------------- *)
\* one record handed to the root logger; old/new are the %s arguments
LogEntry(level, msg, detail, old, new) ==
    [level |-> level, msg |-> msg, detail |-> detail, old |-> old, new |-> new]
LogError(msg, detail) == LogEntry("ERROR", msg, detail, EmptyDict, EmptyDict)

(* ------------------------------- graphs -------------------------------- *)
START == "__start__"
END == "__end__"
\* a StateGraph under construction or compiled; impl names the module whose
\* sample_node the node "sample" is bound to
Graph(nodes, edges, impl, compiled) ==
    [nodes |-> nodes, edges |-> edges, impl |-> impl, compiled |-> compiled]
NoGraph == Graph({}, {}, "none", FALSE)

(* ------------------------------ outcomes ------------------------------- *)
\* what a call did: returned val or raised exc, the log records it emitted,
\* the order of its events, the caller's dict after the call and whether
\* the returned dict is a new object
Returned(val, logs, trace, inputAfter) ==
    [kind |-> "return", val |-> val, exc |-> NoExc, logs |-> logs, trace |-> trace,
     inputAfter |-> inputAfter, fresh |-> TRUE, graph |-> NoGraph]
Raised(exc, logs, trace, inputAfter) ==
    [kind |-> "raise", val |-> EmptyDict, exc |-> exc, logs |-> logs, trace |-> trace,
     inputAfter |-> inputAfter, fresh |-> FALSE, graph |-> NoGraph]
ReturnedGraph(g, trace) ==
    [kind |-> "return", val |-> EmptyDict, exc |-> NoExc, logs |-> <<>>, trace |-> trace,
     inputAfter |-> EmptyDict, fresh |-> TRUE, graph |-> g]

(* ----------------------------- sample_node ----------------------------- *)
\* "Welcome to my agent! " + state["message"]: the lookup, then the concatenation
\* state.get("message", ""): a missing key reads as the empty text
Lookup_Default(state) ==
    [ok |-> TRUE, v |-> IF Has(state, "message") THEN state["message"] ELSE Str(<<>>),
     e |-> NoCause]

Lookup(state) ==
    IF Has(state, "message") THEN [ok |-> TRUE, v |-> state["message"], e |-> NoCause]
    ELSE [ok |-> FALSE, v |-> Absent, e |-> KeyErrorMessage]

\* the greeting without its trailing blank
Concat_NoSpace(v) ==
    IF v.t = "str"
    THEN [ok |-> TRUE, v |-> Str(SubSeq(Prefix, 1, Len(Prefix) - 1) \o v.s), e |-> NoCause]
    ELSE [ok |-> FALSE, v |-> Absent, e |-> ConcatTypeError(v)]

\* "..." + str(v): a value that is no text is converted instead of rejected
Concat_Coerce(v) == [ok |-> TRUE, v |-> Str(Prefix \o Format(v)), e |-> NoCause]

Concat(v) ==
    IF v.t = "str" THEN [ok |-> TRUE, v |-> Str(Prefix \o v.s), e |-> NoCause]
    ELSE [ok |-> FALSE, v |-> Absent, e |-> ConcatTypeError(v)]

SampleNodeFailure(state, e) ==
    Raised(RuntimeErrorFrom("Failed to process state in sample_node", e),
           <<LogError("Error processing state in sample_node", <<e.detail>>)>>,
           <<"sample_node", "logger.error", "raise">>, state)

\* state["message"] = ...; return state: the caller's dict is updated in place
sample_node_InPlace(state) ==
    LET got == Lookup(state)
        sum == Concat(got.v)
        updated == [state EXCEPT !["message"] = sum.v]
    IN  IF ~got.ok THEN SampleNodeFailure(state, got.e)
        ELSE IF ~sum.ok THEN SampleNodeFailure(state, sum.e)
        ELSE [Returned(updated, <<>>, <<"sample_node", "return">>, updated)
                EXCEPT !.fresh = FALSE]

\* a module-level list keeps the texts of earlier calls and they are greeted
\* again with the new one
sample_node_Accumulating(state) ==
    LET got == Lookup(state)
        sum == Concat(got.v)
        earlier == IF calls = <<>> \/ ~Has(calls[1].input, "message") THEN <<>>
                   ELSE Format(calls[1].input["message"])
    IN  IF ~got.ok THEN SampleNodeFailure(state, got.e)
        ELSE IF ~sum.ok THEN SampleNodeFailure(state, sum.e)
        ELSE Returned(State(Str(sum.v.s \o earlier)), <<>>, <<"sample_node", "return">>,
                      state)

\* logger.info(...) before the return: a successful call logs as well
sample_node_Chatty(state) ==
    LET got == Lookup(state)
        sum == Concat(got.v)
    IN  IF ~got.ok THEN SampleNodeFailure(state, got.e)
        ELSE IF ~sum.ok THEN SampleNodeFailure(state, sum.e)
        ELSE Returned(State(sum.v),
                      <<LogEntry("INFO", "processed state in sample_node", <<>>,
                                 state, State(sum.v))>>,
                      <<"sample_node", "logger.info", "return">>, state)

sample_node(state) ==
    LET got == Lookup(state)
        sum == Concat(got.v)
    IN  IF ~got.ok THEN SampleNodeFailure(state, got.e)
        ELSE IF ~sum.ok THEN SampleNodeFailure(state, sum.e)
        ELSE Returned(State(sum.v), <<>>, <<"sample_node", "return">>, state)

\* sample_node of the script workers/run.py: the same expression, no handler
KeyErrorExc == [type |-> "KeyError", msg |-> "'message'", cause |-> NoCause]
TypeErrorExc(v) == [type |-> "TypeError", msg |-> v.t, cause |-> NoCause]

script_sample_node(state) ==
    LET got == Lookup(state)
        sum == Concat(got.v)
    IN  IF ~got.ok THEN Raised(KeyErrorExc, <<>>, <<"sample_node", "raise">>, state)
        ELSE IF ~sum.ok
             THEN Raised(TypeErrorExc(got.v), <<>>, <<"sample_node", "raise">>, state)
        ELSE Returned(State(sum.v), <<>>, <<"sample_node", "return">>, state)

(* --------------------------- create_workflow --------------------------- *)
\* the library calls of create_workflow, in source order
BuildSteps == <<"StateGraph", "add_node", "add_edge_start", "add_edge_end", "compile">>
\* where the graph library may reject the definition; "none": it does not
FailPoints == {"none"} \cup {BuildSteps[i] : i \in DOMAIN BuildSteps}
LibraryError(step) == [type |-> "ValueError", detail |-> step]

\* the edge from the node to END is never wired
ApplyStep_NoEndEdge(step, g, impl) ==
    CASE step = "StateGraph" -> Graph({}, {}, impl, FALSE)
      [] step = "add_node" -> [g EXCEPT !.nodes = @ \cup {"sample"}]
      [] step = "add_edge_start" -> [g EXCEPT !.edges = @ \cup {<<START, "sample">>}]
      [] step = "add_edge_end" -> g
      [] step = "compile" -> [g EXCEPT !.compiled = TRUE]

ApplyStep(step, g, impl) ==
    CASE step = "StateGraph" -> Graph({}, {}, impl, FALSE)
      [] step = "add_node" -> [g EXCEPT !.nodes = @ \cup {"sample"}]
      [] step = "add_edge_start" -> [g EXCEPT !.edges = @ \cup {<<START, "sample">>}]
      [] step = "add_edge_end" -> [g EXCEPT !.edges = @ \cup {<<"sample", END>>}]
      [] step = "compile" -> [g EXCEPT !.compiled = TRUE]

RECURSIVE Build(_, _, _, _)
Build(i, g, impl, failAt) ==
    IF i > Len(BuildSteps) THEN [ok |-> TRUE, g |-> g, e |-> NoCause, done |-> i - 1]
    ELSE IF BuildSteps[i] = failAt
         THEN [ok |-> FALSE, g |-> g, e |-> LibraryError(failAt), done |-> i - 1]
    ELSE Build(i + 1, ApplyStep(BuildSteps[i], g, impl), impl, failAt)

\* no handler around the build: the library's error leaves as it is, unlogged
create_workflow_NoWrap(failAt) ==
    LET b == Build(1, NoGraph, "agent.run", failAt)
        steps == SubSeq(BuildSteps, 1, b.done)
    IN  IF b.ok THEN ReturnedGraph(b.g, <<"create_workflow">> \o steps \o <<"return">>)
        ELSE Raised([type |-> b.e.type, msg |-> b.e.detail, cause |-> NoCause], <<>>,
                    <<"create_workflow">> \o steps \o <<"raise">>, EmptyDict)

create_workflow(failAt) ==
    LET b == Build(1, NoGraph, "agent.run", failAt)
        steps == SubSeq(BuildSteps, 1, b.done)
    IN  IF b.ok THEN ReturnedGraph(b.g, <<"create_workflow">> \o steps \o <<"return">>)
        ELSE Raised(RuntimeErrorFrom("Workflow creation failed", b.e),
                    <<LogError("Failed to create workflow", <<b.e.detail>>)>>,
                    <<"create_workflow">> \o steps \o <<"logger.error", "raise">>,
                    EmptyDict)

\* workers/run.py builds its graph at import, outside any handler
ScriptGraph == Build(1, NoGraph, "run", "none").g

(* ------------------------------- invoke -------------------------------- *)
\* the function a node of the graph is bound to
\* a node that fails is run a second time
NodeCall_Retry(g, node, state) ==
    LET first == IF g.impl = "agent.run" THEN sample_node(state)
                 ELSE script_sample_node(state)
    IN  IF first.kind = "raise"
        THEN [first EXCEPT !.trace = first.trace \o first.trace,
                           !.logs = first.logs \o first.logs]
        ELSE first

NodeCall(g, node, state) ==
    IF g.impl = "agent.run" THEN sample_node(state) ELSE script_sample_node(state)

Successors(g, cur) == {n \in g.nodes \cup {END} : <<cur, n>> \in g.edges}

\* one step per node: run the node on the channel values, write its update
\* back to the channel "message", go on along the edge
RECURSIVE Walk(_, _, _, _, _)
Walk(g, cur, state, trace, fuel) ==
    LET succ == Successors(g, cur)
    IN  IF succ = {} \/ fuel = 0
        THEN Raised([type |-> "GraphError", msg |-> cur, cause |-> NoCause], <<>>,
                    trace \o <<"raise">>, state)
        ELSE LET next == CHOOSE n \in succ : TRUE
             IN  IF next = END THEN Returned(state, <<>>, trace \o <<END, "return">>, state)
                 ELSE LET out == NodeCall(g, next, state)
                      IN  IF out.kind = "raise"
                          THEN Raised(out.exc, out.logs, trace \o out.trace, state)
                          ELSE Walk(g, next, State(out.val["message"]),
                                    trace \o out.trace, fuel - 1)

invoke(g, input) ==
    LET out == Walk(g, START, State(input["message"]), <<"invoke", START>>,
                    Cardinality(g.nodes) + 1)
    IN  [out EXCEPT !.inputAfter = input]

(* ------------------------------ run_agent ------------------------------ *)
\* the dry_run test is missing: a dry run goes through the workflow as well
run_agent_IgnoresDryRun(dry_run, message, failAt) ==
    LET initial_state == State(message)
        made == create_workflow(failAt)
        result == invoke(made.graph, initial_state)
    IN  IF made.kind = "raise"
        THEN Raised(made.exc, made.logs, <<"run_agent">> \o made.trace, initial_state)
        ELSE IF result.kind = "raise"
             THEN Raised(result.exc, result.logs,
                         <<"run_agent">> \o made.trace \o result.trace, initial_state)
        ELSE Returned(result.val, result.logs,
                      <<"run_agent">> \o made.trace \o result.trace \o <<"return">>,
                      initial_state)

\* the dry run hands back the initial state, unprocessed
run_agent_DryEcho(dry_run, message, failAt) ==
    LET initial_state == State(message)
        computed == State(Str(Prefix \o Format(message)))
        made == create_workflow(failAt)
        result == invoke(made.graph, initial_state)
    IN  IF dry_run
        THEN Returned(initial_state,
                      <<LogEntry("INFO", "state transition: %s -> %s", <<>>,
                                 initial_state, computed)>>,
                      <<"run_agent", "logger.info", "return">>, initial_state)
        ELSE IF made.kind = "raise"
             THEN Raised(made.exc, made.logs, <<"run_agent">> \o made.trace, initial_state)
        ELSE IF result.kind = "raise"
             THEN Raised(result.exc, result.logs,
                         <<"run_agent">> \o made.trace \o result.trace, initial_state)
        ELSE Returned(result.val, result.logs,
                      <<"run_agent">> \o made.trace \o result.trace \o <<"return">>,
                      initial_state)

\* the dry run computes its result without logging the transition
run_agent_DrySilent(dry_run, message, failAt) ==
    LET initial_state == State(message)
        computed == State(Str(Prefix \o Format(message)))
        made == create_workflow(failAt)
        result == invoke(made.graph, initial_state)
    IN  IF dry_run
        THEN Returned(computed, <<>>, <<"run_agent", "return">>, initial_state)
        ELSE IF made.kind = "raise"
             THEN Raised(made.exc, made.logs, <<"run_agent">> \o made.trace, initial_state)
        ELSE IF result.kind = "raise"
             THEN Raised(result.exc, result.logs,
                         <<"run_agent">> \o made.trace \o result.trace, initial_state)
        ELSE Returned(result.val, result.logs,
                      <<"run_agent">> \o made.trace \o result.trace \o <<"return">>,
                      initial_state)

run_agent(dry_run, message, failAt) ==
    LET initial_state == State(message)
        computed == State(Str(Prefix \o Format(message)))
        made == create_workflow(failAt)
        result == invoke(made.graph, initial_state)
    IN  IF dry_run
        THEN Returned(computed,
                      <<LogEntry("INFO", "state transition: %s -> %s", <<>>,
                                 initial_state, computed)>>,
                      <<"run_agent", "logger.info", "return">>, initial_state)
        ELSE IF made.kind = "raise"
             THEN Raised(made.exc, made.logs, <<"run_agent">> \o made.trace, initial_state)
        ELSE IF result.kind = "raise"
             THEN Raised(result.exc, result.logs,
                         <<"run_agent">> \o made.trace \o result.trace, initial_state)
        ELSE Returned(result.val, result.logs,
                      <<"run_agent">> \o made.trace \o result.trace \o <<"return">>,
                      initial_state)

(* ------------------------------- output -------------------------------- *)
Quote == "'"
DoubleQuote == "\""
Backslash == "\\"
Contains(s, c) == \E i \in DOMAIN s : s[i] = c

\* one character inside the quotes of a repr
EscapeChar(c, q) ==
    CASE c = q \/ c = Backslash -> <<Backslash, c>>
      [] c = "\n" -> <<Backslash, "n">>
      [] c = "\t" -> <<Backslash, "t">>
      [] c = "\r" -> <<Backslash, "r">>
      [] OTHER -> <<c>>

RECURSIVE Escape(_, _)
Escape(s, q) ==
    IF s = <<>> THEN <<>> ELSE EscapeChar(Head(s), q) \o Escape(Tail(s), q)

\* repr of a str: double quotes when it holds ' and no ", single quotes otherwise
ReprStr(s) ==
    LET q == IF Contains(s, Quote) /\ ~Contains(s, DoubleQuote) THEN DoubleQuote ELSE Quote
    IN  <<q>> \o Escape(s, q) \o <<q>>

ReprValue(v) == IF v.t = "str" THEN ReprStr(v.s) ELSE Format(v)

ReprItem(d, k, name) == IF Has(d, k) THEN <<ReprStr(name) \o <<":", " ">> \o ReprValue(d[k])>>
                        ELSE <<>>

RECURSIVE Join(_)
Join(items) ==
    IF items = <<>> THEN <<>>
    ELSE IF Len(items) = 1 THEN items[1]
    ELSE items[1] \o <<",", " ">> \o Join(Tail(items))

\* str(d) of a dict, keys in insertion order
ReprDict(d) ==
    <<"{">> \o Join(ReprItem(d, "message", <<"m", "e", "s", "s", "a", "g", "e">>)
                    \o ReprItem(d, "extra", <<"e", "x", "t", "r", "a">>)) \o <<"}">>

\* record.getMessage() of the INFO record of a dry run:
\* "state transition: %s -> %s" % (old, new)
TransitionText(entry) ==
    <<"s", "t", "a", "t", "e", " ", "t", "r", "a", "n", "s", "i", "t", "i", "o", "n", ":", " ">>
        \o ReprDict(entry.old) \o <<" ", "-", ">", " ">> \o ReprDict(entry.new)

\* what reaches sys.stdout: a line of print, or a record formatted by the
\* StreamHandler(sys.stdout) that basicConfig installs
PrintLine(d) == [via |-> "print", level |-> "", msg |-> "", args |-> <<ReprDict(d)>>]
HandlerLine(entry) ==
    [via |-> "logging", level |-> entry.level, msg |-> entry.msg,
     args |-> IF entry.level = "INFO" THEN <<ReprDict(entry.old), ReprDict(entry.new)>>
              ELSE <<>>]

RECURSIVE HandlerLines(_)
HandlerLines(entries) ==
    IF entries = <<>> THEN <<>>
    ELSE <<HandlerLine(Head(entries))>> \o HandlerLines(Tail(entries))

(* ---------------------------- initial state --------------------------- *)
NoArgs == [dry_run |-> FALSE, message |-> <<>>, given |-> FALSE]
NoOutcome == [Returned(EmptyDict, <<>>, <<>>, EmptyDict) EXCEPT !.kind = "none", !.fresh = FALSE]
Running == 0 - 1

Init ==
    /\ pc = "idle"
    /\ args = NoArgs
    /\ outcome = NoOutcome
    /\ heap = <<>>
    /\ graphs = <<>>
    /\ log = <<>>
    /\ stdout = <<>>
    /\ exitCode = Running
    /\ calls = <<>>

\* the logger's only handler writes every record to standard output
Emit(entries) ==
    /\ log' = log \o entries
    /\ stdout' = stdout \o HandlerLines(entries)

\* the caller's dict and, on return, the returned dict
Allocate(input, out) ==
    LET inId == Len(heap) + 1
        held == Append(heap, out.inputAfter)
    IN  [heap |-> IF out.kind = "return" /\ out.fresh THEN Append(held, out.val) ELSE held,
         inId |-> inId,
         outId |-> IF out.kind # "return" THEN 0
                   ELSE IF out.fresh THEN inId + 1 ELSE inId]

Call(op, input, dry, failAt, g, ids, out) ==
    [op |-> op, input |-> input, dry_run |-> dry, failAt |-> failAt, graph |-> g,
     inId |-> ids.inId, outId |-> ids.outId, out |-> out]

Record(op, input, dry, failAt, g, out) ==
    LET ids == Allocate(input, out)
    IN  /\ heap' = ids.heap
        /\ calls' = Append(calls, Call(op, input, dry, failAt, g, ids, out))
        /\ outcome' = out
        /\ Emit(out.logs)

CanCall == pc = "idle" /\ Len(calls) < MaxCalls

(* --------------------------- library calls ----------------------------- *)
\* the dicts callers hand to sample_node: a State, a dict without the key, and
\* dicts that hold a second key
SampleInputs ==
    {State(m) : m \in Values \cup {Absent}}
        \cup {Dict(m, Str(<<"a">>)) : m \in {Absent, None, Str(<<"a">>)}}

CallSampleNode(d) ==
    /\ CanCall
    /\ Record("sample_node", d, FALSE, "none", 0, sample_node(d))
    /\ UNCHANGED <<pc, args, graphs, exitCode>>

CallCreateWorkflow(failAt) ==
    /\ CanCall
    /\ LET out == create_workflow(failAt)
       IN  /\ graphs' = IF out.kind = "return" THEN Append(graphs, out.graph) ELSE graphs
           /\ calls' = Append(calls, Call("create_workflow", EmptyDict, FALSE, failAt,
                                          IF out.kind = "return" THEN Len(graphs) + 1 ELSE 0,
                                          [inId |-> 0, outId |-> 0], out))
           /\ outcome' = out
           /\ Emit(out.logs)
    /\ UNCHANGED <<pc, args, heap, exitCode>>

\* graph 0 is the module-level graph of workers/run.py
GraphAt(i) == IF i = 0 THEN ScriptGraph ELSE graphs[i]

CallInvoke(i, d) ==
    /\ CanCall
    /\ Record("invoke", d, FALSE, "none", i, invoke(GraphAt(i), d))
    /\ UNCHANGED <<pc, args, graphs, exitCode>>

CallRunAgent(dry, m, failAt) ==
    /\ CanCall
    /\ dry => failAt = "none"
    \* a build that fails never reads the message: one message stands for all
    /\ failAt # "none" => m = Str(DefaultMessage)
    /\ Record("run_agent", State(m), dry, failAt, 0, run_agent(dry, m, failAt))
    /\ UNCHANGED <<pc, args, graphs, exitCode>>

(* -------------------------------- main --------------------------------- *)
\* parser.parse_args(): --dry-run and --message, the latter with its default
MainParse(dry, given, text) ==
    /\ pc = "idle"
    /\ calls = <<>>
    /\ ~given => text = DefaultMessage
    /\ args' = [dry_run |-> dry, message |-> text, given |-> given]
    /\ pc' = "parsed"
    /\ UNCHANGED <<outcome, heap, graphs, log, stdout, exitCode, calls>>

\* result = run_agent(dry_run=args.dry_run, message=args.message)
MainRunAgent(failAt) ==
    /\ pc = "parsed"
    /\ args.dry_run => failAt = "none"
    /\ LET out == run_agent(args.dry_run, Str(args.message), failAt)
       IN  /\ outcome' = out
           /\ heap' = Allocate(State(Str(args.message)), out).heap
           /\ Emit(out.logs)
    /\ pc' = "ran"
    /\ UNCHANGED <<args, graphs, exitCode, calls>>

\* if not args.dry_run: print(result)
\* the result is printed whatever the mode
Printed_Always(dry_run, out, result) == Append(out, PrintLine(result))
\* the result is never printed
Printed_Never(dry_run, out, result) == out

Printed(dry_run, out, result) ==
    IF dry_run THEN out ELSE Append(out, PrintLine(result))

MainPrint ==
    /\ pc = "ran"
    /\ outcome.kind = "return"
    /\ stdout' = Printed(args.dry_run, stdout, outcome.val)
    /\ pc' = "returning"
    /\ UNCHANGED <<args, outcome, heap, graphs, log, exitCode, calls>>

\* except Exception as e: logger.error("Failed to run agent: %s", e)
\* the handler swallows the failure without logging it
MainFailureLog_Silent(e) == <<>>

MainFailureLog(e) == <<LogError("Failed to run agent: %s", <<e.msg, e.cause.detail>>)>>

MainExcept ==
    /\ pc = "ran"
    /\ outcome.kind = "raise"
    /\ Emit(MainFailureLog(outcome.exc))
    /\ pc' = "handled"
    /\ UNCHANGED <<args, outcome, heap, graphs, exitCode, calls>>

\* sys.exit(1)
FailureStatus == 1

MainSysExit ==
    /\ pc = "handled"
    /\ exitCode' = FailureStatus
    /\ pc' = "exited"
    /\ UNCHANGED <<args, outcome, heap, graphs, log, stdout, calls>>

\* main returns and the interpreter exits with status 0
SuccessStatus == 0

MainReturn ==
    /\ pc = "returning"
    /\ exitCode' = SuccessStatus
    /\ pc' = "exited"
    /\ UNCHANGED <<args, outcome, heap, graphs, log, stdout, calls>>

Next ==
    \/ \E d \in SampleInputs : CallSampleNode(d)
    \/ \E f \in FailPoints : CallCreateWorkflow(f)
    \/ \E i \in 0..Len(graphs), m \in Values : CallInvoke(i, State(m))
    \/ \E dry \in BOOLEAN, m \in Values, f \in FailPoints : CallRunAgent(dry, m, f)
    \/ \E dry \in BOOLEAN, given \in BOOLEAN, text \in Texts : MainParse(dry, given, text)
    \/ \E f \in FailPoints : MainRunAgent(f)
    \/ MainPrint
    \/ MainExcept
    \/ MainSysExit
    \/ MainReturn

Spec == Init /\ [][Next]_vars

(* ------------------------------ helpers -------------------------------- *)
CallsOf(op) == {i \in DOMAIN calls : calls[i].op = op}
Count(seq, x) == Cardinality({i \in DOMAIN seq : seq[i] = x})
IsText(v) == v.t = "str"
\* s is p followed by m
IsPrefixedBy(s, p, m) ==
    /\ Len(s) = Len(p) + Len(m)
    /\ \A i \in 1..Len(p) : s[i] = p[i]
    /\ \A i \in 1..Len(m) : s[Len(p) + i] = m[i]
Welcome == <<"W", "e", "l", "c", "o", "m", "e", " ", "t", "o", " ", "m", "y", " ",
             "a", "g", "e", "n", "t", "!", " ">>

(* ------------------------------- claims -------------------------------- *)
\* C1: for every text m, sample_node on a dict whose message is m returns a
\* dict whose message is "Welcome to my agent! " followed by m, and the
\* returned dict holds no other key.
C1_SampleNodePrefixes ==
    \A i \in CallsOf("sample_node") :
        LET c == calls[i]
        IN  IsText(c.input["message"]) =>
                /\ c.out.kind = "return"
                /\ c.outId \in DOMAIN heap
                /\ IsText(heap[c.outId]["message"])
                /\ IsPrefixedBy(heap[c.outId]["message"].s, Welcome, c.input["message"].s)
                /\ KeysOf(heap[c.outId]) = {"message"}

\* sample_node has returned for the empty text, for a whitespace-only text
\* and for a dict that holds a second key
C1_Witness ==
    /\ \E i \in CallsOf("sample_node") :
           /\ calls[i].input["message"] \in {Str(<<>>), Str(<<" ">>)}
           /\ calls[i].out.kind = "return"
    /\ \E i \in CallsOf("sample_node") :
           /\ calls[i].input = Dict(Str(<<"a">>), Str(<<"a">>))
           /\ calls[i].out.kind = "return"

\* C2: sample_node never mutates its input: after a call, returned or failed,
\* the caller's dict holds the keys and the message it held before, and the
\* returned dict is a new object, distinct from the caller's dict.
C2_InputNotMutated ==
    \A i \in CallsOf("sample_node") :
        LET c == calls[i]
        IN  /\ heap[c.inId] = c.input
            /\ KeysOf(heap[c.inId]) = KeysOf(c.input)
            /\ c.out.kind = "return" =>
                   /\ c.outId # c.inId
                   /\ \A j \in 1..(i - 1) : c.outId \notin {calls[j].inId, calls[j].outId}

\* one call of sample_node has returned and another has failed
C2_Witness ==
    \E i, j \in CallsOf("sample_node") :
        /\ calls[i].out.kind = "return"
        /\ calls[j].out.kind = "raise"
        /\ Has(calls[j].input, "message")

\* C3: sample_node on a dict without the key message raises the RuntimeError
\* of sample_node (the spec's ProcessingError) whose cause is the KeyError of
\* the lookup; no dict is returned.
C3_MissingKeyRaises ==
    \A i \in CallsOf("sample_node") :
        LET c == calls[i]
        IN  ~Has(c.input, "message") =>
                /\ c.out.kind = "raise"
                /\ c.out.exc.type = "RuntimeError"
                /\ c.out.exc.msg = "Failed to process state in sample_node"
                /\ c.out.exc.cause = [type |-> "KeyError", detail |-> "'message'"]
                /\ c.outId = 0
                /\ c.out.val = EmptyDict

\* sample_node was called on the empty dict and on a dict holding only
\* another key
C3_Witness ==
    /\ \E i \in CallsOf("sample_node") : calls[i].input = EmptyDict
    /\ \E i \in CallsOf("sample_node") : KeysOf(calls[i].input) = {"extra"}

\* C4: when message is present but is no text (None, an integer), sample_node
\* fails with the error kind of a missing key: a RuntimeError whose message
\* is "Failed to process state in sample_node" and whose cause is the
\* TypeError of the concatenation.
C4_WrongTypeRaisesSameKind ==
    \A i \in CallsOf("sample_node") :
        LET c == calls[i]
            missing == sample_node(EmptyDict)
        IN  (Has(c.input, "message") /\ ~IsText(c.input["message"])) =>
                /\ c.out.kind = "raise"
                /\ c.out.exc.type = "RuntimeError"
                /\ c.out.exc.msg = "Failed to process state in sample_node"
                /\ c.out.exc.cause.type = "TypeError"
                /\ c.out.exc.type = missing.exc.type
                /\ c.out.exc.msg = missing.exc.msg
                /\ c.outId = 0

\* sample_node was called with None and with 123 as message
C4_Witness ==
    /\ \E i \in CallsOf("sample_node") : calls[i].input["message"] = None
    /\ \E i \in CallsOf("sample_node") : calls[i].input["message"] = IntVal(123)

\* C5: for every text m, invoking a workflow returned by create_workflow (or
\* the module-level graph of workers/run.py) with {message: m} returns what
\* sample_node returns on {message: m}; every workflow has the single node
\* "sample", the edge START -> sample and the edge sample -> END, and nothing
\* else (no branch, no loop).
C5_InvokeEqualsSampleNode ==
    /\ \A i \in CallsOf("invoke") :
           LET c == calls[i]
               direct == sample_node(c.input)
           IN  IsText(c.input["message"]) =>
                   /\ direct.kind = "return"
                   /\ c.out.kind = "return"
                   /\ c.outId \in DOMAIN heap
                   /\ heap[c.outId] = direct.val
                   /\ heap[c.outId] = State(Str(Welcome \o c.input["message"].s))
                   /\ Count(c.out.trace, "sample_node") = 1
    /\ \A k \in 0..Len(graphs) :
           /\ GraphAt(k).nodes = {"sample"}
           /\ GraphAt(k).edges = {<<START, "sample">>, <<"sample", END>>}
           /\ GraphAt(k).compiled

\* a workflow made by create_workflow was invoked on a text and returned
C5_Witness ==
    \E i \in CallsOf("invoke") :
        /\ calls[i].graph >= 1
        /\ calls[i].input["message"] = Str(<<"'">>)
        /\ calls[i].out.kind = "return"

DefaultResultLine ==
    <<"{", "'", "m", "e", "s", "s", "a", "g", "e", "'", ":", " ", "'">>
        \o Welcome \o <<"M", "e", "h", "r", "n", "o", "o", "s", "h">> \o <<"'", "}">>

\* C7: a CLI invocation without --dry-run that does not fail builds the
\* workflow once, invokes it once with {message: X}, X being "Mehrnoosh"
\* when --message is absent, writes exactly one line to standard output, the
\* result dict whose message is "Welcome to my agent! X", and exits with 0.
C7_NormalRunPrintsResult ==
    (pc = "exited" /\ ~args.dry_run /\ outcome.kind = "return") =>
        /\ exitCode = 0
        /\ ~args.given => args.message = <<"M", "e", "h", "r", "n", "o", "o", "s", "h">>
        /\ heap[1] = State(Str(args.message))
        /\ Count(outcome.trace, "create_workflow") = 1
        /\ Count(outcome.trace, "invoke") = 1
        /\ Count(outcome.trace, "sample_node") = 1
        /\ outcome.val = State(Str(Welcome \o args.message))
        /\ stdout = <<PrintLine(outcome.val)>>
        /\ ~args.given => stdout[1].args = <<DefaultResultLine>>

\* a run without options and a run with --message have exited after printing
C7_Witness ==
    /\ pc = "exited"
    /\ ~args.dry_run
    /\ args.given
    /\ args.message = <<"'">>
    /\ outcome.kind = "return"
    /\ Len(stdout) = 1

MainFailureLogged ==
    /\ log # <<>>
    /\ log[Len(log)].level = "ERROR"
    /\ log[Len(log)].msg = "Failed to run agent: %s"
    /\ log[Len(log)].detail = <<outcome.exc.msg, outcome.exc.cause.detail>>

\* C8: in main, a failure of the workflow's construction or invocation is
\* caught and logged at error level, then the process exits with status 1;
\* on that path nothing is printed, and the log record is there before the
\* exit.
C8_MainFailureExitsOne ==
    /\ (pc = "ran" /\ outcome.kind = "raise") => exitCode = Running
    /\ (pc \in {"handled", "exited"} /\ outcome.kind = "raise") =>
           /\ MainFailureLogged
           /\ \A i \in DOMAIN stdout : stdout[i].via # "print"
           /\ pc = "handled" => exitCode = Running
           /\ pc = "exited" => exitCode = 1
    /\ exitCode = 1 => (outcome.kind = "raise" /\ MainFailureLogged)

\* main has exited with 1 after compile failed
C8_Witness ==
    /\ pc = "exited"
    /\ exitCode = 1
    /\ outcome.exc.cause.detail = "compile"

WorkflowUntouched(trace) ==
    /\ Count(trace, "create_workflow") = 0
    /\ Count(trace, "invoke") = 0
    /\ Count(trace, "sample_node") = 0

\* C9: with dry_run set, run_agent neither builds the workflow nor invokes
\* it nor calls sample_node, so a dry-run of main never enters the except
\* branch and exits with 0.
C9_DryRunSkipsWorkflow ==
    /\ (args.dry_run /\ pc \in {"ran", "handled", "returning", "exited"}) =>
           /\ outcome.kind = "return"
           /\ WorkflowUntouched(outcome.trace)
           /\ graphs = <<>>
           /\ pc # "handled"
           /\ pc = "exited" => exitCode = 0
    /\ \A i \in CallsOf("run_agent") :
           calls[i].dry_run =>
               /\ calls[i].out.kind = "return"
               /\ WorkflowUntouched(calls[i].out.trace)

\* a dry run of main has exited
C9_Witness == args.dry_run /\ pc = "exited" /\ exitCode = 0

Before(trace, a, b) ==
    \E i, j \in DOMAIN trace : i < j /\ trace[i] = a /\ trace[j] = b

\* C10: when the graph library fails at any step of create_workflow (graph
\* creation, node registration, edge wiring, compile), create_workflow raises
\* the RuntimeError "Workflow creation failed" (the spec's
\* WorkflowConstructionError) whose cause is that failure, after one ERROR
\* record was logged, and returns no workflow.
C10_ConstructionFailureWrapped ==
    /\ \A i \in CallsOf("create_workflow") :
           LET c == calls[i]
           IN  c.failAt # "none" =>
                   /\ c.out.kind = "raise"
                   /\ c.out.exc.type = "RuntimeError"
                   /\ c.out.exc.msg = "Workflow creation failed"
                   /\ c.out.exc.cause = [type |-> "ValueError", detail |-> c.failAt]
                   /\ Len(c.out.logs) = 1
                   /\ c.out.logs[1].level = "ERROR"
                   /\ c.out.logs[1].msg = "Failed to create workflow"
                   /\ \E k \in DOMAIN log : log[k] = c.out.logs[1]
                   /\ Before(c.out.trace, "logger.error", "raise")
                   /\ c.out.graph = NoGraph
                   /\ c.graph = 0
    /\ Len(graphs) = Cardinality({i \in CallsOf("create_workflow") : calls[i].failAt = "none"})

\* create_workflow has failed at the graph's creation and at compile
C10_Witness ==
    /\ \E i \in CallsOf("create_workflow") : calls[i].failAt = "StateGraph"
    /\ \E i \in CallsOf("create_workflow") : calls[i].failAt = "compile"

\* what a caller can observe of a call: how it ended, the dict it returned
\* (read from the heap) or the exception it raised, and what it logged
Observed(c) ==
    [kind |-> c.out.kind,
     val |-> IF c.out.kind = "return" /\ c.outId \in DOMAIN heap THEN heap[c.outId]
             ELSE EmptyDict,
     exc |-> c.out.exc,
     logs |-> c.out.logs]

\* two calls of the same function with equal arguments, the graph library
\* behaving alike in both; two invocations may use different workflows, both
\* made by create_workflow
SameCall(c, d) ==
    /\ c.op = d.op
    /\ c.op \in {"sample_node", "invoke", "run_agent"}
    /\ c.input = d.input
    /\ c.dry_run = d.dry_run
    /\ c.failAt = d.failAt
    /\ c.op = "invoke" => (c.graph >= 1 /\ d.graph >= 1)

C12_DryRunEqualsNormalRun ==
    \A i, j \in CallsOf("run_agent") :
        LET d == calls[i]
            n == calls[j]
        IN  (d.dry_run /\ ~n.dry_run /\ d.input = n.input) =>
                /\ (IsText(n.input["message"]) /\ n.failAt = "none") => n.out.kind = "return"
                /\ n.out.kind = "return" =>
                       /\ d.out.kind = "return"
                       /\ heap[d.outId] = heap[n.outId]
                       /\ heap[d.outId] = State(Str(Welcome \o n.input["message"].s))

\* run_agent has returned for the same text in a dry run and in a normal run
C12_Witness ==
    \E i, j \in CallsOf("run_agent") :
        /\ calls[i].dry_run
        /\ ~calls[j].dry_run
        /\ calls[i].input = State(Str(<<"a">>))
        /\ calls[j].input = calls[i].input
        /\ calls[i].out.kind = "return"
        /\ calls[j].out.kind = "return"

\* this step is a call of sample_node
SampleNodeCalled ==
    /\ Len(calls') = Len(calls) + 1
    /\ calls'[Len(calls')].op = "sample_node"

\* C13: the only thing a call of sample_node does besides returning is to
\* log on failure: a call that returns hands no record to the logger and
\* writes nothing; a call that fails hands it exactly one record, at ERROR
\* level, before the RuntimeError is raised; nothing else changes.
C13_SampleNodeLogsOnlyOnFailure ==
    [][SampleNodeCalled =>
        LET c == calls'[Len(calls')]
        IN  /\ c.out.kind = "return" =>
                   /\ log' = log
                   /\ stdout' = stdout
                   /\ Count(c.out.trace, "logger.error") = 0
            /\ c.out.kind = "raise" =>
                   /\ Len(log') = Len(log) + 1
                   /\ SubSeq(log', 1, Len(log)) = log
                   /\ log'[Len(log')].level = "ERROR"
                   /\ log'[Len(log')].msg = "Error processing state in sample_node"
                   /\ Len(stdout') = Len(stdout) + 1
                   /\ stdout'[Len(stdout')].via = "logging"
                   /\ Count(c.out.trace, "logger.error") = 1
                   /\ Before(c.out.trace, "logger.error", "raise")
            /\ SubSeq(heap', 1, Len(heap)) = heap
            /\ graphs' = graphs
            /\ exitCode' = exitCode
            /\ pc' = pc
            /\ args' = args]_vars

\* sample_node has returned once and failed once, and one record was logged
C13_Witness ==
    /\ Len(calls) = 2
    /\ calls[1].op = "sample_node"
    /\ calls[1].out.kind = "return"
    /\ calls[2].op = "sample_node"
    /\ calls[2].out.kind = "raise"
    /\ Len(log) = 1

\* x occurs in s as a run of consecutive characters
IsInfix(x, s) ==
    \E k \in 0..(Len(s) - Len(x)) : \A i \in 1..Len(x) : s[k + i] = x[i]

\* repr writes every character of x as it is
WrittenAsIs(x) == \A i \in DOMAIN x : x[i] \notin {"\n", "\t", "\r", "\\", "\"", "'"}

\* a dry run logs one INFO record of the transition from {message: X} to the
\* computed dict, and returns a dict equal to the logged one
DryRunLogsTransition(c) ==
    /\ c.out.kind = "return"
    /\ Len(c.out.logs) = 1
    /\ Count(c.out.trace, "logger.info") = 1
    /\ \E k \in DOMAIN log : log[k] = c.out.logs[1]
    /\ c.out.logs[1].level = "INFO"
    /\ c.out.logs[1].msg = "state transition: %s -> %s"
    /\ c.out.logs[1].old = c.input
    /\ c.out.logs[1].new = State(Str(Welcome \o Format(c.input["message"])))
    /\ heap[c.outId] = c.out.logs[1].new

\* C14 as stated: a dry run of run_agent with the text X logs exactly one
\* INFO record describing the transition from {message: X} to
\* {message: "Welcome to my agent! X"}, the text of the record contains X,
\* and the returned dict is the computed dict that was logged.
C14_DryRunLogContainsMessage ==
    \A i \in CallsOf("run_agent") :
        LET c == calls[i]
        IN  (c.dry_run /\ IsText(c.input["message"])) =>
                /\ DryRunLogsTransition(c)
                /\ IsInfix(c.input["message"].s, TransitionText(c.out.logs[1]))

\* C14 as amended: a dry run of run_agent with message X logs exactly one
\* INFO record whose text is "state transition: " followed by the repr of
\* {message: X}, " -> " and the repr of the computed dict; it contains X
\* when X holds no character that repr escapes (quote, backslash, newline,
\* tab, return); the returned dict equals the logged computed dict.
C14_DryRunLogShowsReprOfMessage ==
    \A i \in CallsOf("run_agent") :
        LET c == calls[i]
            x == c.input["message"]
        IN  c.dry_run =>
                /\ DryRunLogsTransition(c)
                /\ IsInfix(ReprValue(x), TransitionText(c.out.logs[1]))
                /\ (IsText(x) /\ WrittenAsIs(x.s)) =>
                       IsInfix(x.s, TransitionText(c.out.logs[1]))

\* run_agent has made a dry run with the default message and one with None
C14_Witness ==
    /\ \E i \in CallsOf("run_agent") :
           calls[i].dry_run /\ calls[i].input = State(Str(DefaultMessage))
    /\ \E i \in CallsOf("run_agent") : calls[i].dry_run /\ calls[i].input = State(None)

\* one invocation: the node's function is called exactly once, after START;
\* when it returns END follows and a dict is handed back, when it fails the
\* invocation ends there with no dict
InvokedOnce(out, outId) ==
    /\ Count(out.trace, "invoke") = 1
    /\ Count(out.trace, START) = 1
    /\ Count(out.trace, "sample_node") = 1
    /\ Before(out.trace, START, "sample_node")
    /\ out.kind = "return" =>
           /\ Count(out.trace, END) = 1
           /\ Before(out.trace, "sample_node", END)
    /\ out.kind = "raise" =>
           /\ Count(out.trace, END) = 0
           /\ Count(out.trace, "raise") = 1
           /\ outId = 0
           /\ out.val = EmptyDict

\* a normal run builds one workflow and, when the build succeeds, invokes it
BuiltOnceInvokedOnce(out, outId, failAt) ==
    /\ Count(out.trace, "create_workflow") = 1
    /\ failAt = "none" =>
           /\ Before(out.trace, "create_workflow", "invoke")
           /\ InvokedOnce(out, outId)
    /\ failAt # "none" => Count(out.trace, "invoke") = 0

\* C15: every run of run_agent without dry_run builds exactly one workflow,
\* and every invocation of a workflow calls sample_node exactly once, after
\* START and before END; when sample_node fails the invocation ends without
\* a result dict and sample_node is not called again.
C15_OneWorkflowOneNodeCall ==
    /\ \A i \in CallsOf("run_agent") :
           ~calls[i].dry_run =>
               BuiltOnceInvokedOnce(calls[i].out, calls[i].outId, calls[i].failAt)
    /\ \A i \in CallsOf("invoke") : InvokedOnce(calls[i].out, calls[i].outId)
    /\ (pc \in {"ran", "returning", "handled", "exited"} /\ ~args.dry_run) =>
           /\ Count(outcome.trace, "create_workflow") = 1
           /\ outcome.kind = "return" => InvokedOnce(outcome, 2)

\* a normal run of run_agent has returned and another one has ended with the
\* failure of sample_node
C15_Witness ==
    /\ \E i \in CallsOf("run_agent") : ~calls[i].dry_run /\ calls[i].out.kind = "return"
    /\ \E i \in CallsOf("run_agent") :
           /\ ~calls[i].dry_run
           /\ calls[i].input = State(None)
           /\ calls[i].out.kind = "raise"
           /\ calls[i].out.exc.cause.type = "TypeError"

====
